---- MODULE Spec2Model ----
(***************************************************************************)
(* Client-side state layer of the Fialo AI front end: the three zustand    *)
(* stores (auth, user profile, waste entries) and the handlers that drive  *)
(* them.  JavaScript strings that the code converts or takes apart are     *)
(* sequences of one-character strings; a nullable JavaScript value is a    *)
(* tagged record, so that null, undefined and a string can be compared.    *)
(***************************************************************************)
EXTENDS Integers, Sequences, FiniteSets, Bags, TLC

VARIABLES
    isAuthenticated,  \* AuthState.isAuthenticated
    isLoading,        \* AuthState.isLoading
    user,             \* AuthState.user (Null or a User record)
    token,            \* AuthState.token (Null or a string)
    pending,          \* login/register calls suspended at their await
    profile,          \* UserState.profile (Null or an object)
    entries,          \* WasteState.entries
    now,              \* the wall clock read by Date.now() / new Date()
    wasteTypes,       \* AIWasteAnalyzer: the wasteTypes prop
    isAnalyzing,      \* AIWasteAnalyzer: useState(false)
    currentStep,      \* AIWasteAnalyzer: useState(0)
    analysis,         \* AIWasteAnalyzer: useState(null)
    runs,             \* runAnalysis calls suspended at an await (a bag: calls may be alike)
    aiAnalysis,       \* the parent's state, set through onAnalysisComplete
    crashed,          \* a render of the analyzer has thrown
    href,             \* window.location.href
    storage,          \* localStorage: what is kept under each persist name
    step,             \* the onboarding page: useState(1) (currentStep)
    form,             \* which onboarding page is mounted: "individual", "company" or "none"
    selectedTypes,    \* WasteTypeSelector on its own: the selectedTypes prop
    dialog,           \* WasteTypeSelector: the open WasteWeightInput (type and weight), or Null
    otherEntries,     \* WasteState.entries of a second tab on the same localStorage
    last              \* the handler that ran in the last step, its arguments and outcome

authVars == <<isAuthenticated, isLoading, user, token, pending>>
storeVars == <<isAuthenticated, isLoading, user, token, pending, profile, entries, now>>
analyzerVars == <<wasteTypes, isAnalyzing, currentStep, analysis, runs, aiAnalysis, crashed, href>>
pageVars == <<step, form, selectedTypes, dialog, otherEntries>>
vars == <<isAuthenticated, isLoading, user, token, pending, profile, entries, now,
          wasteTypes, isAnalyzing, currentStep, analysis, runs, aiAnalysis, crashed, href,
          storage, step, form, selectedTypes, dialog, otherEntries, last>>

----------------------------------------------------------------------------
(* Bounds of the model *)

MaxInFlight == 2   \* login/register calls suspended at the same time
MaxEntries == 3    \* entries held in the log
MaxRuns == 2       \* runAnalysis calls suspended at the same time
ClockSpan == 2     \* milliseconds the clock may advance past StartTime

StartTime == 9     \* first clock reading; 9, 10, 11 cross a digit boundary

FloatBits == 4     \* significant bits a number keeps (53 in an IEEE double)

----------------------------------------------------------------------------
(* JavaScript values *)

Null == [t |-> "null"]
Undefined == [t |-> "undefined"]
Str(s) == [t |-> "string", v |-> s]

Digits == <<"0", "1", "2", "3", "4", "5", "6", "7", "8", "9">>

RECURSIVE NumToString(_)
NumToString(n) ==
    IF n < 10 THEN <<Digits[n + 1]>>
    ELSE NumToString(n \div 10) \o <<Digits[(n % 10) + 1]>>

RECURSIVE PadStart(_, _)
PadStart(s, w) == IF Len(s) >= w THEN s ELSE PadStart(<<"0">> \o s, w)

\* new Date(t).toISOString() for a clock reading within the first minute of the epoch
ToISOString(t) ==
    <<"1", "9", "7", "0", "-", "0", "1", "-", "0", "1", "T", "0", "0", ":", "0", "0", ":">>
    \o PadStart(NumToString(t \div 1000), 2) \o <<".">>
    \o PadStart(NumToString(t % 1000), 3) \o <<"Z">>

\* s.split(sep)[0]: the part of s before the first sep, all of s when there is none
RECURSIVE SplitFirst(_, _)
SplitFirst(s, sep) ==
    IF s = <<>> THEN <<>>
    ELSE IF Head(s) = sep THEN <<>>
    ELSE <<Head(s)>> \o SplitFirst(Tail(s), sep)

\* { ...a, ...b } on objects; spreading null or undefined contributes nothing
Obj(a) == IF a = Null \/ a = Undefined THEN <<>> ELSE a
Spread(a, b) ==
    [k \in (DOMAIN Obj(a)) \cup (DOMAIN Obj(b)) |->
        IF k \in DOMAIN Obj(b) THEN Obj(b)[k] ELSE Obj(a)[k]]

(* Numbers are binary floating-point values counted in units of a fixed power
   of two: a number is held exactly when it fits in FloatBits significant
   bits, and every addition rounds its result to the nearest such number,
   ties to the even significand. *)
RECURSIVE Pow2(_)
Pow2(k) == IF k = 0 THEN 1 ELSE 2 * Pow2(k - 1)

RECURSIVE BitLen(_)
BitLen(n) == IF n = 0 THEN 0 ELSE 1 + BitLen(n \div 2)

Round(n) ==
    IF n < Pow2(FloatBits) THEN n
    ELSE LET u == Pow2(BitLen(n) - FloatBits)
             q == n \div u
             r == n % u
         IN  IF 2 * r < u THEN q * u
             ELSE IF 2 * r > u THEN (q + 1) * u
             ELSE IF q % 2 = 0 THEN q * u ELSE (q + 1) * u

\* a + b on numbers
Plus(a, b) == Round(a + b)

(* The numbers of the analysis are fractions n/d in lowest terms: weights are
   whole kilograms and 2.1, 0.5 and 0.15 are the decimal fractions they
   denote, so products and quotients are exact. *)
RECURSIVE Gcd(_, _)
Gcd(a, b) == IF b = 0 THEN a ELSE Gcd(b, a % b)

Num(n, d) == [n |-> n \div Gcd(n, d), d |-> d \div Gcd(n, d)]
IsNumber(x) == DOMAIN x = {"n", "d"}
NaN == [t |-> "NaN"]

Mul(a, b) == Num(a.n * b.n, a.d * b.d)
Div(a, b) == Num(a.n * b.d, a.d * b.n)
Add(a, b) == Num(a.n * b.d + b.n * a.d, a.d * b.d)

\* Math.round: the nearest integer, halves upwards; NaN for what is not a number
MathRound(x) == IF IsNumber(x) THEN Num((2 * x.n + x.d) \div (2 * x.d), 1) ELSE NaN

\* x.toFixed(2) of a number below 10^7: the digits of x rounded to hundredths
ToFixed2(x) ==
    LET h == (200 * x.n + x.d) \div (2 * x.d)
    IN  NumToString(h \div 100) \o <<".">> \o PadStart(NumToString(h % 100), 2)

\* obj.k: undefined when obj has no property k
Get(obj, k) == IF k \in DOMAIN obj THEN obj[k] ELSE Undefined

NoArg == <<>>
Ran(op, id, arg, result) == [op |-> op, id |-> id, arg |-> arg, result |-> result]

----------------------------------------------------------------------------
(* Inputs *)

\* an e-mail address, and what a caller that bypasses the type checker can pass
Emails == {Str(<<"b", "o", "@", "y">>), Undefined}
StringEmails == {e \in Emails : e.t = "string"}
Names == {<<>>, <<"A", "l">>}

Times == StartTime..(StartTime + ClockSpan)

\* arguments of addEntry (Omit<WasteEntry, 'id'>)
EntryA == [date |-> ToISOString(StartTime), wasteTypes |-> [food_scraps |-> 4],
           totalWeight |-> 4, energyGenerated |-> 8, co2Avoided |-> 2, costSavings |-> 1]
EntryB == [date |-> ToISOString(StartTime + 1), wasteTypes |-> [market_waste |-> 2, wood_biomass |-> 3],
           totalWeight |-> 5, energyGenerated |-> 10, co2Avoided |-> 3, costSavings |-> 2]
EntryInputs == {EntryA, EntryB}

\* a third argument of addEntry, with which sums of fields round
EntryC == [date |-> ToISOString(StartTime + 2), wasteTypes |-> [animal_waste |-> 7],
           totalWeight |-> 7, energyGenerated |-> 15, co2Avoided |-> 3, costSavings |-> 2]
StatEntries == {EntryA, EntryB, EntryC}

\* bounds passed to getEntriesByDateRange: two full timestamps and two bare days
DateInputs == {EntryA.date, EntryB.date,
               <<"1","9","7","0","-","0","1","-","0","1">>,
               <<"1","9","7","0","-","0","1","-","0","2">>}

\* the wasteTypes prop: nothing to analyse, and weights totalling 10, 44 and 8000 kg
WasteInputs == {[food_scraps |-> 0],
                [food_scraps |-> 4, wood_biomass |-> 6],
                [market_waste |-> 44],
                [agricultural_biomass |-> 8000]}

\* response.data of a simulation request that was answered
GoodData ==
    [results |-> [daily_averages |-> [energy_generated_kwh |-> Num(37, 2), co2_avoided_kg |-> Num(9, 1)]],
     personal_impact |-> [daily_savings_usd |-> Num(11, 4), trees_equivalent |-> Num(5, 2),
                          cars_equivalent |-> Num(1, 400)]]
ResponseData ==
    {GoodData,
     Undefined,                                              \* no body
     [personal_impact |-> GoodData.personal_impact],         \* no results
     [results |-> [daily_averages |-> [co2_avoided_kg |-> Num(9, 1)]],
      personal_impact |-> GoodData.personal_impact],         \* no energy_generated_kwh
     [results |-> GoodData.results,
      personal_impact |-> [daily_savings_usd |-> Num(11, 4), trees_equivalent |-> Num(5, 2)]]}
                                                             \* no cars_equivalent

\* how a simulation request ends: answered with a body, or rejected
Failures == {"network", "500", "401"}
Outcomes == {[kind |-> "response", data |-> d] : d \in ResponseData}
                \cup {[kind |-> f, data |-> Undefined] : f \in Failures}

\* the stats prop of the dashboard's impact panel
StatsInputs ==
    {[totalWaste |-> Num(10, 1), totalEnergy |-> Num(21, 1), totalCo2Avoided |-> Num(5, 1),
      totalSavings |-> Num(63, 20)],
     [totalWaste |-> Num(44, 1), totalEnergy |-> Num(45, 1), totalCo2Avoided |-> Num(22, 1),
      totalSavings |-> Num(7, 1)],
     [totalWaste |-> Num(8000, 1), totalEnergy |-> Num(16800, 1), totalCo2Avoided |-> Num(4000, 1),
      totalSavings |-> Num(2520, 1)]}

\* identifiers passed to updateEntry and deleteEntry
IdInputs == {NumToString(t) : t \in Times}

\* arguments of updateEntry (Partial<WasteEntry>)
Co2Inputs == {3, 7}
Co2Update(x) == [co2Avoided |-> x]
UpdateInputs == {Co2Update(x) : x \in Co2Inputs}
                \cup {[id |-> NumToString(StartTime)]}

\* arguments of setUserType and updateProfile
UserTypes == {Str("individual"), Str("company"), Null}
ProfileInputs == {[location |-> "Nairobi, Kenya", energyNeeds |-> 10, wasteTypes |-> [food_scraps |-> 4]],
                  [companyName |-> "Acme", energyNeeds |-> 50],
                  [location |-> "Lagos, Nigeria", currentProcessingMethod |-> "landfill",
                   operationalCost |-> 100],
                  [userType |-> Str("company"), wasteTypes |-> [market_waste |-> 2]]}

----------------------------------------------------------------------------
(* The persist middleware around the three stores *)

\* localStorage.getItem of a key that is not there
Absent == Null

PersistNames == {"auth-storage", "user-storage", "waste-storage"}

\* JSON.stringify then JSON.parse of a user: a property whose value is undefined is dropped
JsonUser(u) ==
    IF u = Null THEN Null
    ELSE [k \in {j \in DOMAIN u : j # "email" \/ u.email # Undefined} |-> u[k]]

\* partialize that keeps the busy flag
partializeAll(ia, il, u, t) == [isAuthenticated |-> ia, isLoading |-> il, user |-> u, token |-> t]

\* partialize of the AuthStore
partialize(ia, il, u, t) == [isAuthenticated |-> ia, user |-> u, token |-> t]

\* what persist writes on every set: the kept part of the state and a version
authItem(ia, il, u, t) ==
    LET kept == partialize(ia, il, u, t)
    IN  [state |-> [k \in DOMAIN kept |-> IF k = "user" THEN JsonUser(kept[k]) ELSE kept[k]],
         version |-> 0]
userItem(p) == [state |-> [profile |-> p], version |-> 0]
wasteItem(es) == [state |-> [entries |-> es], version |-> 0]

\* a persisted string that JSON.parse rejects
Corrupt == [t |-> "corrupt"]

\* a store created on a fresh load that ignores what is kept
hydrateKeepsDefaults(defaults, item) == defaults

\* a store created on a fresh load: its initial state, with the kept state spread over it
hydrate(defaults, item) ==
    IF item = Absent \/ item = Corrupt THEN defaults ELSE Spread(defaults, item.state)

authDefaults == [isAuthenticated |-> FALSE, isLoading |-> FALSE, user |-> Null, token |-> Null]
userDefaults == [profile |-> Null]
wasteDefaults == [entries |-> <<>>]

----------------------------------------------------------------------------
(* AuthStore: frontend/src/store/authStore.ts *)

MockToken == Str(<<"m", "o", "c", "k", "-", "j", "w", "t", "-", "t", "o", "k", "e", "n">>)

FreeSlot == CHOOSE k \in 1..(MaxInFlight + 1) :
                /\ \A c \in pending : c.slot # k
                /\ \A j \in 1..(k - 1) : \E c \in pending : c.slot = j

\* login, up to its await
login(email) ==
    /\ Cardinality(pending) < MaxInFlight
    /\ isLoading' = TRUE
    /\ pending' = pending \cup {[slot |-> FreeSlot, op |-> "login", email |-> email, name |-> <<>>]}
    /\ last' = Ran("login", <<>>, NoArg, "await")
    /\ UNCHANGED <<isAuthenticated, user, token, profile, entries, now, analyzerVars, pageVars>>
    /\ storage' = [storage EXCEPT !["auth-storage"] = authItem(isAuthenticated', isLoading', user', token')]

\* the user object login builds; email.split throws when email is not a string
loginUser(email) ==
    [id |-> <<"1">>, email |-> email, name |-> SplitFirst(email.v, "@"),
     createdAt |-> ToISOString(now)]

\* loginResume with a catch block that forgets the busy flag
loginResumeLeavesLoading(c) ==
    /\ c \in pending /\ c.op = "login"
    /\ pending' = pending \ {c}
    /\ IF c.email.t = "string"
       THEN /\ isAuthenticated' = TRUE
            /\ user' = loginUser(c.email)
            /\ token' = MockToken
            /\ isLoading' = FALSE
            /\ last' = Ran("login", <<>>, NoArg, "ok")
       ELSE /\ last' = Ran("login", <<>>, NoArg, "throw")
            /\ UNCHANGED <<isAuthenticated, isLoading, user, token>>
    /\ UNCHANGED <<profile, entries, now, analyzerVars, pageVars>>
    /\ storage' = [storage EXCEPT !["auth-storage"] = authItem(isAuthenticated', isLoading', user', token')]

\* login, from its await to its end
loginResume(c) ==
    /\ c \in pending /\ c.op = "login"
    /\ pending' = pending \ {c}
    /\ IF c.email.t = "string"
       THEN /\ isAuthenticated' = TRUE
            /\ user' = loginUser(c.email)
            /\ token' = MockToken
            /\ isLoading' = FALSE
            /\ last' = Ran("login", <<>>, NoArg, "ok")
       ELSE /\ isLoading' = FALSE
            /\ last' = Ran("login", <<>>, NoArg, "throw")
            /\ UNCHANGED <<isAuthenticated, user, token>>
    /\ UNCHANGED <<profile, entries, now, analyzerVars, pageVars>>
    /\ storage' = [storage EXCEPT !["auth-storage"] = authItem(isAuthenticated', isLoading', user', token')]

\* register, up to its await
register(name, email) ==
    /\ Cardinality(pending) < MaxInFlight
    /\ isLoading' = TRUE
    /\ pending' = pending \cup {[slot |-> FreeSlot, op |-> "register", email |-> email, name |-> name]}
    /\ last' = Ran("register", <<>>, NoArg, "await")
    /\ UNCHANGED <<isAuthenticated, user, token, profile, entries, now, analyzerVars, pageVars>>
    /\ storage' = [storage EXCEPT !["auth-storage"] = authItem(isAuthenticated', isLoading', user', token')]

\* the user object register builds; nothing in it can throw
registerUser(name, email) ==
    [id |-> <<"1">>, email |-> email, name |-> name, createdAt |-> ToISOString(now)]

\* register, from its await to its end
registerResume(c) ==
    /\ c \in pending /\ c.op = "register"
    /\ pending' = pending \ {c}
    /\ isAuthenticated' = TRUE
    /\ user' = registerUser(c.name, c.email)
    /\ token' = MockToken
    /\ isLoading' = FALSE
    /\ last' = Ran("register", <<>>, NoArg, "ok")
    /\ UNCHANGED <<profile, entries, now, analyzerVars, pageVars>>
    /\ storage' = [storage EXCEPT !["auth-storage"] = authItem(isAuthenticated', isLoading', user', token')]

\* logout that forgets the token
logoutKeepsToken ==
    /\ isAuthenticated' = FALSE
    /\ user' = Null
    /\ last' = Ran("logout", <<>>, [wasAuthenticated |-> isAuthenticated], "ok")
    /\ UNCHANGED <<token, isLoading, pending, profile, entries, now, analyzerVars, pageVars>>
    /\ storage' = [storage EXCEPT !["auth-storage"] = authItem(isAuthenticated', isLoading', user', token')]

\* logout that also wipes the profile
logoutResetsProfile ==
    /\ isAuthenticated' = FALSE
    /\ user' = Null
    /\ token' = Null
    /\ profile' = Null
    /\ last' = Ran("logout", <<>>, [wasAuthenticated |-> isAuthenticated], "ok")
    /\ UNCHANGED <<isLoading, pending, entries, now, analyzerVars, pageVars>>
    /\ storage' = [storage EXCEPT !["auth-storage"] = authItem(isAuthenticated', isLoading', user', token'),
                                  !["user-storage"] = userItem(profile')]

logout ==
    /\ isAuthenticated' = FALSE
    /\ user' = Null
    /\ token' = Null
    /\ last' = Ran("logout", <<>>, [wasAuthenticated |-> isAuthenticated], "ok")
    /\ UNCHANGED <<isLoading, pending, profile, entries, now, analyzerVars, pageVars>>
    /\ storage' = [storage EXCEPT !["auth-storage"] = authItem(isAuthenticated', isLoading', user', token')]

setLoading(loading) ==
    /\ isLoading' = loading
    /\ last' = Ran("setLoading", <<>>, [loading |-> loading], "ok")
    /\ UNCHANGED <<isAuthenticated, user, token, pending, profile, entries, now, analyzerVars, pageVars>>
    /\ storage' = [storage EXCEPT !["auth-storage"] = authItem(isAuthenticated', isLoading', user', token')]

----------------------------------------------------------------------------
(* UserProfileStore: frontend/src/store/userStore.ts *)

\* setUserType that builds the profile from the tag alone
setUserTypeAlone(userType) ==
    /\ profile' = [userType |-> userType]
    /\ last' = Ran("setUserType", <<>>, [userType |-> userType], "ok")
    /\ UNCHANGED <<isAuthenticated, isLoading, user, token, pending, entries, now, analyzerVars, pageVars>>
    /\ storage' = [storage EXCEPT !["user-storage"] = userItem(profile')]

setUserType(userType) ==
    /\ profile' = Spread(profile, [userType |-> userType])
    /\ last' = Ran("setUserType", <<>>, [userType |-> userType], "ok")
    /\ UNCHANGED <<isAuthenticated, isLoading, user, token, pending, entries, now, analyzerVars, pageVars>>
    /\ storage' = [storage EXCEPT !["user-storage"] = userItem(profile')]

\* updateProfile that spreads in the other order: {...profile, ...state.profile}
updateProfileKeepsOld(partial) ==
    /\ profile' = Spread(partial, profile)
    /\ last' = Ran("updateProfile", <<>>, partial, "ok")
    /\ UNCHANGED <<isAuthenticated, isLoading, user, token, pending, entries, now, analyzerVars, pageVars>>
    /\ storage' = [storage EXCEPT !["user-storage"] = userItem(profile')]

updateProfile(partial) ==
    /\ profile' = Spread(profile, partial)
    /\ last' = Ran("updateProfile", <<>>, partial, "ok")
    /\ UNCHANGED <<isAuthenticated, isLoading, user, token, pending, entries, now, analyzerVars, pageVars>>
    /\ storage' = [storage EXCEPT !["user-storage"] = userItem(profile')]

resetProfile ==
    /\ profile' = Null
    /\ last' = Ran("resetProfile", <<>>, NoArg, "ok")
    /\ UNCHANGED <<isAuthenticated, isLoading, user, token, pending, entries, now, analyzerVars, pageVars>>
    /\ storage' = [storage EXCEPT !["user-storage"] = userItem(profile')]

----------------------------------------------------------------------------
(* WasteEntryStore: frontend/src/store/wasteStore.ts *)

\* Date.now().toString()
newId(t) == NumToString(t)

\* addEntry that appends: [...state.entries, newEntry]
addEntryAppends(es, entry, t) == es \o <<Spread(entry, [id |-> newId(t)])>>

\* the state addEntry sets: [newEntry, ...state.entries]
addEntryState(es, entry, t) == <<Spread(entry, [id |-> newId(t)])>> \o es

\* the state updateEntry sets: every entry whose id matches is merged with updates
updateEntryState(es, id, updates) ==
    [i \in 1..Len(es) |-> IF es[i].id = id THEN Spread(es[i], updates) ELSE es[i]]

\* the state deleteEntry sets: the entries whose id differs, in order
deleteEntryState(es, id) == SelectSeq(es, LAMBDA e : e.id # id)

addEntry(entry) ==
    /\ Len(entries) < MaxEntries
    /\ entries' = addEntryState(entries, entry, now)
    /\ last' = Ran("addEntry", newId(now), entry, "ok")
    /\ UNCHANGED <<isAuthenticated, isLoading, user, token, pending, profile, now, analyzerVars, pageVars>>
    /\ storage' = [storage EXCEPT !["waste-storage"] = wasteItem(entries')]

updateEntry(id, updates) ==
    /\ entries' = updateEntryState(entries, id, updates)
    /\ last' = Ran("updateEntry", id, updates, "ok")
    /\ UNCHANGED <<isAuthenticated, isLoading, user, token, pending, profile, now, analyzerVars, pageVars>>
    /\ storage' = [storage EXCEPT !["waste-storage"] = wasteItem(entries')]

deleteEntry(id) ==
    /\ entries' = deleteEntryState(entries, id)
    /\ last' = Ran("deleteEntry", id, NoArg, "ok")
    /\ UNCHANGED <<isAuthenticated, isLoading, user, token, pending, profile, now, analyzerVars, pageVars>>
    /\ storage' = [storage EXCEPT !["waste-storage"] = wasteItem(entries')]

\* getTotalStats whose energy total adds up the weights
RECURSIVE reduceStatsWeights(_, _, _)
reduceStatsWeights(es, i, acc) ==
    IF i > Len(es) THEN acc
    ELSE reduceStatsWeights(es, i + 1,
            [totalWaste |-> Plus(acc.totalWaste, es[i].totalWeight),
             totalEnergy |-> Plus(acc.totalEnergy, es[i].totalWeight),
             totalCo2Avoided |-> Plus(acc.totalCo2Avoided, es[i].co2Avoided),
             totalSavings |-> Plus(acc.totalSavings, es[i].costSavings)])

\* entries.reduce(...) from the i-th entry on, acc holding the totals so far
RECURSIVE reduceStats(_, _, _)
reduceStats(es, i, acc) ==
    IF i > Len(es) THEN acc
    ELSE reduceStats(es, i + 1,
            [totalWaste |-> Plus(acc.totalWaste, es[i].totalWeight),
             totalEnergy |-> Plus(acc.totalEnergy, es[i].energyGenerated),
             totalCo2Avoided |-> Plus(acc.totalCo2Avoided, es[i].co2Avoided),
             totalSavings |-> Plus(acc.totalSavings, es[i].costSavings)])

ZeroStats == [totalWaste |-> 0, totalEnergy |-> 0, totalCo2Avoided |-> 0, totalSavings |-> 0]

\* what getTotalStats returns on the log es
totalStats(es) == reduceStats(es, 1, ZeroStats)

getTotalStats ==
    /\ last' = Ran("getTotalStats", <<>>, totalStats(entries), "ok")
    /\ UNCHANGED <<isAuthenticated, isLoading, user, token, pending, profile, entries, now, analyzerVars, storage, pageVars>>

\* the UTF-16 code unit of a character of a date string
CharCode ==
    [c \in {Digits[i] : i \in 1..10} \cup {"-", ".", ":", "T", "Z"} |->
        CASE c = "-" -> 45 [] c = "." -> 46 [] c = ":" -> 58 [] c = "T" -> 84 [] c = "Z" -> 90
          [] OTHER -> 47 + (CHOOSE i \in 1..10 : Digits[i] = c)]

\* a < b on strings: code units compared from the left, a proper prefix is smaller
RECURSIVE StrLess(_, _)
StrLess(a, b) ==
    IF b = <<>> THEN FALSE
    ELSE IF a = <<>> THEN TRUE
    ELSE IF CharCode[Head(a)] # CharCode[Head(b)] THEN CharCode[Head(a)] < CharCode[Head(b)]
    ELSE StrLess(Tail(a), Tail(b))

\* a >= b and a <= b on strings
StrGE(a, b) == ~StrLess(a, b)
StrLE(a, b) == ~StrLess(b, a)

\* getEntriesByDateRange whose upper bound is exclusive
entriesBeforeEnd(es, startDate, endDate) ==
    SelectSeq(es, LAMBDA entry : StrGE(entry.date, startDate) /\ StrLess(entry.date, endDate))

\* what getEntriesByDateRange returns on the log es
entriesByDateRange(es, startDate, endDate) ==
    SelectSeq(es, LAMBDA entry : StrGE(entry.date, startDate) /\ StrLE(entry.date, endDate))

getEntriesByDateRange(startDate, endDate) ==
    /\ last' = Ran("getEntriesByDateRange", <<startDate, endDate>>,
                   entriesByDateRange(entries, startDate, endDate), "ok")
    /\ UNCHANGED <<isAuthenticated, isLoading, user, token, pending, profile, entries, now, analyzerVars, storage, pageVars>>

----------------------------------------------------------------------------
(* AIWasteAnalyzer: frontend/src/components/ai/AIWasteAnalyzer.tsx *)

analysisSteps == <<"analyzing", "optimizing", "calculating", "assessing">>

\* Object.values(w).reduce((sum, weight) => sum + weight, 0)
RECURSIVE SumWeights(_, _)
SumWeights(w, keys) ==
    IF keys = {} THEN 0
    ELSE LET k == CHOOSE x \in keys : TRUE IN w[k] + SumWeights(w, keys \ {k})
totalWasteOf(w) == Num(SumWeights(w, DOMAIN w), 1)

\* wasteTypes.k > 0: false when wasteTypes has no k
Positive(w, k) == k \in DOMAIN w /\ w[k] > 0

generateRecommendations(w) ==
    (IF Positive(w, "food_scraps") THEN <<"primary">> ELSE <<>>)
        \o (IF Positive(w, "agricultural_biomass") THEN <<"secondary">> ELSE <<>>)
        \o (IF Positive(w, "wood_biomass") THEN <<"alternative">> ELSE <<>>)

\* generateMockAnalysis that prices the waste instead of the energy
generateMockAnalysisPricesWaste(w) ==
    LET totalWaste == totalWasteOf(w)
        energyGenerated == Mul(totalWaste, Num(21, 10))
        co2Avoided == Mul(totalWaste, Num(5, 10))
        costSavings == Mul(totalWaste, Num(15, 100))
    IN  [energyGenerated |-> energyGenerated,
         co2Avoided |-> co2Avoided,
         costSavings |-> costSavings,
         recommendations |-> generateRecommendations(w),
         confidence |-> Num(88, 100),
         conversionMethod |-> "biogas",
         wasteComposition |-> w,
         totalWaste |-> totalWaste,
         environmentalImpact |->
             [treesEquivalent |-> MathRound(Div(co2Avoided, Num(22, 1))),
              carsEquivalent |-> Div(co2Avoided, Num(4000, 1))]]

generateMockAnalysis(w) ==
    LET totalWaste == totalWasteOf(w)
        energyGenerated == Mul(totalWaste, Num(21, 10))
        co2Avoided == Mul(totalWaste, Num(5, 10))
        costSavings == Mul(energyGenerated, Num(15, 100))
    IN  [energyGenerated |-> energyGenerated,
         co2Avoided |-> co2Avoided,
         costSavings |-> costSavings,
         recommendations |-> generateRecommendations(w),
         confidence |-> Num(88, 100),
         conversionMethod |-> "biogas",
         wasteComposition |-> w,
         totalWaste |-> totalWaste,
         environmentalImpact |->
             [treesEquivalent |-> MathRound(Div(co2Avoided, Num(22, 1))),
              carsEquivalent |-> Div(co2Avoided, Num(4000, 1))]]

\* reading response.data.results.daily_averages.x or response.data.personal_impact.x
\* throws when the object read from is undefined
ReadThrows(data) ==
    \/ data = Undefined
    \/ Get(data, "results") = Undefined
    \/ Get(Get(data, "results"), "daily_averages") = Undefined
    \/ Get(data, "personal_impact") = Undefined

\* the analysisResult built from an answered request
analysisResult(r, data) ==
    [energyGenerated |-> Get(data.results.daily_averages, "energy_generated_kwh"),
     co2Avoided |-> Get(data.results.daily_averages, "co2_avoided_kg"),
     costSavings |-> Get(data.personal_impact, "daily_savings_usd"),
     recommendations |-> generateRecommendations(r.wasteTypes),
     confidence |-> Num(92, 100),
     conversionMethod |-> "biogas",
     wasteComposition |-> r.wasteTypes,
     totalWaste |-> totalWasteOf(r.wasteTypes),
     environmentalImpact |->
         [treesEquivalent |-> MathRound(Get(data.personal_impact, "trees_equivalent")),
          carsEquivalent |-> Get(data.personal_impact, "cars_equivalent")]]

\* the request was rejected, or reading the response threw: the catch block runs
Caught(o) == o.kind # "response" \/ ReadThrows(o.data)

\* what runAnalysis passes to setAnalysis and onAnalysisComplete
Delivered(r, o) == IF Caught(o) THEN generateMockAnalysis(r.wasteTypes) ELSE analysisResult(r, o.data)

\* the render of the results calls toFixed on three fields of analysis
RenderThrows(analyzing, a) ==
    /\ ~analyzing
    /\ a # Null
    /\ \E f \in {"energyGenerated", "costSavings", "co2Avoided"} : ~IsNumber(a[f])

\* a render with a new wasteTypes prop; its effect starts runAnalysis, which runs
\* up to the first timer
setWasteTypes(w) ==
    /\ ~crashed
    /\ w # wasteTypes
    /\ BagCardinality(runs) < MaxRuns
    /\ wasteTypes' = w
    /\ IF totalWasteOf(w).n > 0
       THEN /\ isAnalyzing' = TRUE
            /\ currentStep' = 0
            /\ runs' = runs (+) SetToBag({[pc |-> "timer", i |-> 0, wasteTypes |-> w, live |-> TRUE, heard |-> TRUE]})
            /\ last' = Ran("setWasteTypes", <<>>, NoArg, "await")
       ELSE /\ UNCHANGED <<isAnalyzing, currentStep, runs>>
            /\ last' = Ran("setWasteTypes", <<>>, NoArg, "ok")
    /\ UNCHANGED <<analysis, aiAnalysis, crashed, href, storeVars, storage, pageVars>>

\* the request interceptor: JSON.parse of what is kept under 'auth-storage',
\* outside any try block
requestThrows == storage["auth-storage"] = Corrupt

\* a timer of the step loop fires: the next step, or the request after the last;
\* a request that the interceptor rejects reaches the catch block at once. The
\* state setters of an unmounted instance do nothing.
timerResume(r) ==
    /\ ~crashed
    /\ r.pc = "timer"
    /\ IF r.i + 1 < Len(analysisSteps)
       THEN /\ currentStep' = IF r.live THEN r.i + 1 ELSE currentStep
            /\ runs' = (runs (-) SetToBag({r})) (+) SetToBag({[r EXCEPT !.i = r.i + 1]})
            /\ last' = Ran("timer", <<>>, NoArg, "await")
            /\ UNCHANGED <<isAnalyzing, analysis, aiAnalysis, crashed>>
       ELSE IF requestThrows
       THEN /\ analysis' = IF r.live THEN generateMockAnalysis(r.wasteTypes) ELSE analysis
            /\ aiAnalysis' = IF r.heard THEN generateMockAnalysis(r.wasteTypes) ELSE aiAnalysis
            /\ isAnalyzing' = IF r.live THEN FALSE ELSE isAnalyzing
            /\ runs' = runs (-) SetToBag({r})
            /\ crashed' = RenderThrows(isAnalyzing', analysis')
            /\ last' = Ran("runAnalysis", <<>>,
                           [outcome |-> [kind |-> "SyntaxError"], wasteTypes |-> r.wasteTypes], "ok")
            /\ UNCHANGED currentStep
       ELSE /\ runs' = (runs (-) SetToBag({r})) (+) SetToBag({[r EXCEPT !.pc = "request"]})
            /\ last' = Ran("timer", <<>>, NoArg, "await")
            /\ UNCHANGED <<currentStep, isAnalyzing, analysis, aiAnalysis, crashed>>
    /\ UNCHANGED <<wasteTypes, href, storeVars, storage, pageVars>>

\* requestResume without the finally block: a caught failure leaves the busy flag
requestResumeStaysBusy(r, o) ==
    /\ ~crashed
    /\ r.pc = "request"
    /\ analysis' = IF r.live THEN Delivered(r, o) ELSE analysis
    /\ aiAnalysis' = IF r.heard THEN Delivered(r, o) ELSE aiAnalysis
    /\ isAnalyzing' = IF Caught(o) \/ ~r.live THEN isAnalyzing ELSE FALSE
    /\ runs' = runs (-) SetToBag({r})
    /\ href' = IF o.kind = "401" THEN "/auth" ELSE href
    /\ crashed' = RenderThrows(isAnalyzing', analysis')
    /\ storage' = IF o.kind = "401" THEN [storage EXCEPT !["auth-storage"] = Absent] ELSE storage
    /\ last' = Ran("runAnalysis", <<>>, [outcome |-> o, wasteTypes |-> r.wasteTypes], "ok")
    /\ UNCHANGED <<wasteTypes, currentStep, storeVars, pageVars>>

\* the request ends: the rest of the try block, or the catch block, then finally;
\* a 401 goes through the response interceptor first
requestResume(r, o) ==
    /\ ~crashed
    /\ r.pc = "request"
    /\ analysis' = IF r.live THEN Delivered(r, o) ELSE analysis
    /\ aiAnalysis' = IF r.heard THEN Delivered(r, o) ELSE aiAnalysis
    /\ isAnalyzing' = IF r.live THEN FALSE ELSE isAnalyzing
    /\ runs' = runs (-) SetToBag({r})
    /\ href' = IF o.kind = "401" THEN "/auth" ELSE href
    /\ crashed' = RenderThrows(isAnalyzing', analysis')
    /\ storage' = IF o.kind = "401" THEN [storage EXCEPT !["auth-storage"] = Absent] ELSE storage
    /\ last' = Ran("runAnalysis", <<>>, [outcome |-> o, wasteTypes |-> r.wasteTypes], "ok")
    /\ UNCHANGED <<wasteTypes, currentStep, storeVars, pageVars>>

PageInit ==
    /\ step = 1
    /\ form = "none"
    /\ selectedTypes = <<>>
    /\ dialog = Null
    /\ otherEntries = <<>>

AnalyzerInit ==
    /\ wasteTypes = [food_scraps |-> 0]
    /\ isAnalyzing = FALSE
    /\ currentStep = 0
    /\ analysis = Null
    /\ runs = EmptyBag
    /\ aiAnalysis = Null
    /\ crashed = FALSE
    /\ href = "/onboarding"

----------------------------------------------------------------------------
(* ImpactVisualization: frontend/src/components/dashboard/ImpactVisualization.tsx *)

impactMetrics(stats) ==
    [treesEquivalent |-> MathRound(Div(stats.totalCo2Avoided, Num(22, 1))),
     carsEquivalent |-> Str(ToFixed2(Div(stats.totalCo2Avoided, Num(4000, 1)))),
     homesPowered |-> MathRound(Div(stats.totalEnergy, Num(30, 1)))]

\* rendered on the dashboard page, where no analyzer is mounted
ImpactVisualization(stats) ==
    /\ runs = EmptyBag
    /\ last' = Ran("ImpactVisualization", <<>>, [stats |-> stats, metrics |-> impactMetrics(stats)], "ok")
    /\ UNCHANGED <<storeVars, analyzerVars, storage, pageVars>>

----------------------------------------------------------------------------
(* A restart of the page: the stores are created again and hydrated *)

\* what the three stores keep of the current state
Kept ==
    [n \in PersistNames |->
        CASE n = "auth-storage" -> authItem(isAuthenticated, isLoading, user, token)
          [] n = "user-storage" -> userItem(profile)
          [] n = "waste-storage" -> wasteItem(entries)]

\* Suspended calls and component state are lost; every store hydrates from
\* localStorage and writes back what it then holds, except that a store whose
\* blob cannot be parsed keeps its defaults and writes nothing.
reload ==
    LET auth == hydrate(authDefaults, storage["auth-storage"])
        usr == hydrate(userDefaults, storage["user-storage"])
        waste == hydrate(wasteDefaults, storage["waste-storage"])
    IN  /\ isAuthenticated' = auth.isAuthenticated
        /\ isLoading' = auth.isLoading
        /\ user' = auth.user
        /\ token' = auth.token
        /\ profile' = usr.profile
        /\ entries' = waste.entries
        /\ pending' = {}
        /\ wasteTypes' = [food_scraps |-> 0]
        /\ isAnalyzing' = FALSE
        /\ currentStep' = 0
        /\ analysis' = Null
        /\ runs' = EmptyBag
        /\ aiAnalysis' = Null
        /\ crashed' = FALSE
        /\ storage' = [n \in PersistNames |-> IF storage[n] = Corrupt THEN Corrupt ELSE Kept'[n]]
        /\ last' = Ran("reload", <<>>,
                       [wasLoading |-> isLoading,
                        unreadable |-> {n \in PersistNames : storage[n] \in {Absent, Corrupt}}], "ok")
        /\ step' = 1
        /\ dialog' = Null
        /\ selectedTypes' = <<>>
        /\ UNCHANGED <<now, href, form, otherEntries>>

\* something outside the stores leaves an unparseable string under a key
corrupt(n) ==
    /\ storage[n] # Corrupt
    /\ storage' = [storage EXCEPT ![n] = Corrupt]
    /\ last' = Ran("corrupt", <<>>, [name |-> n], "ok")
    /\ UNCHANGED <<storeVars, analyzerVars, pageVars>>

----------------------------------------------------------------------------
(* The clock *)

\* a millisecond passes between two handlers
Tick ==
    /\ now < StartTime + ClockSpan
    /\ now' = now + 1
    /\ last' = Ran("tick", <<>>, NoArg, "ok")
    /\ UNCHANGED <<isAuthenticated, isLoading, user, token, pending, profile, entries, analyzerVars, storage, pageVars>>

----------------------------------------------------------------------------

Init ==
    /\ isAuthenticated = FALSE
    /\ isLoading = FALSE
    /\ user = Null
    /\ token = Null
    /\ pending = {}
    /\ profile = Null
    /\ entries = <<>>
    /\ now = StartTime
    /\ AnalyzerInit
    /\ PageInit
    /\ storage = Kept
    /\ last = Ran("init", <<>>, NoArg, "ok")

NextAuth ==
    \/ \E e \in Emails : login(e)
    \/ \E c \in pending : loginResume(c)
    \/ \E n \in Names, e \in Emails : register(n, e)
    \/ \E c \in pending : registerResume(c)
    \/ logout
    \/ \E b \in BOOLEAN : setLoading(b)

NextProfile ==
    \/ \E t \in UserTypes : setUserType(t)
    \/ \E p \in ProfileInputs : updateProfile(p)
    \/ resetProfile

NextWaste ==
    \/ \E e \in EntryInputs : addEntry(e)
    \/ \E id \in IdInputs, u \in UpdateInputs : updateEntry(id, u)
    \/ \E id \in IdInputs : deleteEntry(id)

Next == NextAuth \/ NextProfile \/ NextWaste \/ Tick

Spec == Init /\ [][Next]_vars

\* the stores one at a time, the clock running
SpecAuth == Init /\ [][NextAuth \/ Tick]_vars
SpecProfile == Init /\ [][NextProfile]_vars
SpecWaste == Init /\ [][NextWaste \/ Tick]_vars

\* the entry log and its queries
NextQueries ==
    \/ \E e \in StatEntries : addEntry(e)
    \/ \E id \in IdInputs : deleteEntry(id)
    \/ getTotalStats
    \/ \E startDate, endDate \in DateInputs : getEntriesByDateRange(startDate, endDate)

SpecQueries == Init /\ [][NextQueries]_vars

\* the analyzer and the impact panel
NextAnalyzer ==
    \/ \E w \in WasteInputs : setWasteTypes(w)
    \/ \E r \in BagToSet(runs) : timerResume(r)
    \/ \E r \in BagToSet(runs), o \in Outcomes : requestResume(r, o)
    \/ \E stats \in StatsInputs : ImpactVisualization(stats)

SpecAnalyzer == Init /\ [][NextAnalyzer]_vars

\* the AuthStore driven by login, register, logout and the completions only
NextRequests ==
    \/ \E e \in StringEmails : login(e)
    \/ \E c \in pending : loginResume(c)
    \/ \E n \in Names, e \in StringEmails : register(n, e)
    \/ \E c \in pending : registerResume(c)
    \/ logout

\* with well-typed arguments: no request fails
SpecRequests == Init /\ [][NextRequests \/ Tick]_vars

\* the three stores with well-typed arguments, and restarts of the page
NextStores ==
    \/ NextRequests
    \/ \E t \in {Str("individual")} : setUserType(t)
    \/ \E p \in {[location |-> "Nairobi, Kenya", energyNeeds |-> 10, wasteTypes |-> [food_scraps |-> 4]]} :
           updateProfile(p)
    \/ resetProfile
    \/ \E e \in {EntryA} : addEntry(e)
    \/ \E id \in {NumToString(StartTime)} : deleteEntry(id)
    \/ reload

SpecRestart == Init /\ [][NextStores]_vars

\* a session of the AuthStore that starts with what an earlier session left in the
\* two other persisted stores: nothing, or a profile and a log of one entry
HeldStates ==
    {<<Null, <<>>>>,
     <<Spread(Spread(Null, [userType |-> Str("company")]), [companyName |-> "Acme", energyNeeds |-> 50]),
       addEntryState(<<>>, EntryA, StartTime)>>}

InitSession ==
    /\ isAuthenticated = FALSE
    /\ isLoading = FALSE
    /\ user = Null
    /\ token = Null
    /\ pending = {}
    /\ \E h \in HeldStates : profile = h[1] /\ entries = h[2]
    /\ now = StartTime
    /\ AnalyzerInit
    /\ PageInit
    /\ storage = Kept
    /\ last = Ran("init", <<>>, NoArg, "ok")

SpecSession == InitSession /\ [][NextAuth \/ Tick]_vars

----------------------------------------------------------------------------
(* Properties of the AuthStore *)

\* C1: in every reachable state user is non-null exactly when isAuthenticated is
\* true, and token is non-null exactly when isAuthenticated is true.
AuthFieldsAgree ==
    /\ (user # Null) <=> isAuthenticated
    /\ (token # Null) <=> isAuthenticated

\* an authenticated store with another request still suspended
AuthFieldsAgreeWitness ==
    /\ isAuthenticated /\ user # Null /\ token # Null
    /\ pending # {}
    /\ last.op \in {"login", "register"} /\ last.result = "ok"

\* C2 (as claimed): every step that turns isAuthenticated from false to true
\* starts in a state with isLoading = true.
AuthenticatedOnlyFromLoading ==
    [][(~isAuthenticated /\ isAuthenticated') => isLoading]_vars

\* C3: logout ends with isAuthenticated = false, user = null, token = null and
\* without an error, and leaves the profile and the entry log as they were.
LogoutClearsSessionOnly ==
    [][(last'.op = "logout") =>
          /\ isAuthenticated' = FALSE /\ user' = Null /\ token' = Null
          /\ last'.result = "ok"
          /\ profile' = profile /\ entries' = entries]_vars

\* logout has just ended a session opened by a login, the other stores holding data
LogoutClearsSessionOnlyWitness ==
    /\ last.op = "logout" /\ last.arg.wasAuthenticated
    /\ ~isAuthenticated
    /\ profile # Null /\ entries # <<>>

\* a call whose continuation throws: login with an email that has no split method
Fails(c) == c.op = "login" /\ c.email.t # "string"

EmptyNameRejected ==
    user # Null => user.name # <<>>

----------------------------------------------------------------------------
(* Properties of the WasteEntryStore *)

Ids(es) == {es[i].id : i \in 1..Len(es)}
Matches(es, id) == {i \in 1..Len(es) : es[i].id = id}

\* es without its i-th element
RemoveAt(es, i) == SubSeq(es, 1, i - 1) \o SubSeq(es, i + 1, Len(es))

\* C6 (as claimed): the identifiers of the held entries are pairwise distinct.
IdsDistinct ==
    \A i, j \in 1..Len(entries) : i # j => entries[i].id # entries[j].id

\* C7: addEntry puts the new entry, with its identifier, at the head of the log
\* and leaves the entries held before behind it, unchanged and in order.
AddEntryPrepends ==
    [][(last'.op = "addEntry") =>
          /\ Len(entries') = Len(entries) + 1
          /\ Tail(entries') = entries
          /\ Head(entries') = Spread(last'.arg, [id |-> last'.id])
          /\ last'.id = NumToString(now)]_vars

\* addEntry has just added a third entry in front of two different ones
AddEntryPrependsWitness ==
    /\ last.op = "addEntry"
    /\ Len(entries) = 3
    /\ entries[2] # entries[3]
    /\ entries[1].id = last.id

\* C8 (as claimed): addEntry followed at once by deleteEntry with the new
\* entry's identifier gives back the log as it was.
AddThenDeleteRestores ==
    \A e \in EntryInputs :
        deleteEntryState(addEntryState(entries, e, now), newId(now)) = entries

\* C9 (as claimed): updateEntry(id, {co2Avoided: X}) changes the co2Avoided field
\* of the one entry matching id and nothing else in the log.
UpdateChangesOneEntry ==
    [][(last'.op = "updateEntry" /\ \E x \in Co2Inputs : last'.arg = Co2Update(x)) =>
          /\ Len(entries') = Len(entries)
          /\ Cardinality({i \in 1..Len(entries) : entries'[i] # entries[i]}) <= 1
          /\ \A i \in 1..Len(entries) :
                entries'[i] # entries[i] =>
                    /\ entries[i].id = last'.id
                    /\ entries'[i] = [entries[i] EXCEPT !.co2Avoided = last'.arg.co2Avoided]]_vars

\* C10 (as claimed): deleteEntry(id) removes exactly one entry, the one matching
\* id, when id is held; deleteEntry and updateEntry with an id that is not held
\* leave the log unchanged.
DeleteRemovesOneEntry ==
    [][/\ (last'.op = "deleteEntry" /\ last'.id \in Ids(entries)) =>
             \E i \in Matches(entries, last'.id) : entries' = RemoveAt(entries, i)
       /\ (last'.op \in {"deleteEntry", "updateEntry"} /\ last'.id \notin Ids(entries)) =>
             entries' = entries]_vars

----------------------------------------------------------------------------
(* Properties of the queries on the entry log *)

Fields == {"totalWeight", "energyGenerated", "co2Avoided", "costSavings"}

\* the sum, without rounding, of field f over the entries of es at the indices in S
RECURSIVE SumOver(_, _, _)
SumOver(es, f, S) ==
    IF S = {} THEN 0
    ELSE LET i == CHOOSE j \in S : TRUE IN es[i][f] + SumOver(es, f, S \ {i})

ExactStats(es) ==
    [totalWaste |-> SumOver(es, "totalWeight", DOMAIN es),
     totalEnergy |-> SumOver(es, "energyGenerated", DOMAIN es),
     totalCo2Avoided |-> SumOver(es, "co2Avoided", DOMAIN es),
     totalSavings |-> SumOver(es, "costSavings", DOMAIN es)]

\* no sum of the fields of some of the entries needs rounding
SumsAreHeldExactly(es) ==
    \A f \in Fields : \A S \in SUBSET (DOMAIN es) :
        Round(SumOver(es, f, S)) = SumOver(es, f, S)

\* the logs that hold the entries of es in another order
Reorderings(es) ==
    {[i \in DOMAIN es |-> es[f[i]]] :
        f \in {g \in [DOMAIN es -> DOMAIN es] : \A i, j \in DOMAIN es : g[i] = g[j] => i = j}}

\* C11 (as claimed): getTotalStats returns the sums of the four fields over the
\* held entries, the same whatever the order of the entries, and zeros on an
\* empty log.
StatsAreSums ==
    last.op = "getTotalStats" =>
        /\ last.arg = ExactStats(entries)
        /\ \A p \in Reorderings(entries) : totalStats(p) = last.arg
        /\ entries = <<>> => last.arg = ZeroStats

\* C11 (amended): getTotalStats returns zeros on an empty log and, when no sum
\* of held values needs rounding, the sums of the four fields over the held
\* entries, the same whatever the order of the entries.
StatsAreSumsWhenExact ==
    last.op = "getTotalStats" =>
        /\ SumsAreHeldExactly(entries) =>
              /\ last.arg = ExactStats(entries)
              /\ \A p \in Reorderings(entries) : totalStats(p) = last.arg
        /\ entries = <<>> => last.arg = ZeroStats

\* getTotalStats has answered on a log of three entries, not all alike, whose sums are exact
StatsAreSumsWhenExactWitness ==
    /\ last.op = "getTotalStats"
    /\ Len(entries) = 3 /\ entries[1] # entries[2]
    /\ SumsAreHeldExactly(entries)
    /\ last.arg.totalEnergy > 0

\* a <= b in dictionary order: equal, or a proper prefix, or smaller at the first difference
LexLE(a, b) ==
    \/ a = b
    \/ Len(a) < Len(b) /\ SubSeq(b, 1, Len(a)) = a
    \/ \E k \in 1..Len(a) :
          /\ k <= Len(b)
          /\ SubSeq(a, 1, k - 1) = SubSeq(b, 1, k - 1)
          /\ CharCode[a[k]] < CharCode[b[k]]

\* the positions of the entries of es dated within [from, to]
InRange(es, from, to) == {i \in DOMAIN es : LexLE(from, es[i].date) /\ LexLE(es[i].date, to)}

\* the entries of es at the positions in I, in the order of es
Pick(es, I) ==
    [k \in 1..Cardinality(I) |->
        es[CHOOSE i \in I : Cardinality({j \in I : j <= i}) = k]]

\* C12: getEntriesByDateRange(start, end) returns exactly the held entries whose
\* date d satisfies start <= d <= end in dictionary order, in the order of the
\* log, and leaves the log as it was.
DateRangeSelects ==
    [][last'.op = "getEntriesByDateRange" =>
          /\ last'.arg = Pick(entries, InRange(entries, last'.id[1], last'.id[2]))
          /\ entries' = entries]_vars

\* a query has kept an entry dated exactly at its end and dropped a later one
DateRangeSelectsWitness ==
    /\ last.op = "getEntriesByDateRange"
    /\ Len(last.arg) = 2 /\ Len(entries) = 3
    /\ \E i \in DOMAIN last.arg : last.arg[i].date = last.id[2]
    /\ \E i \in DOMAIN entries : StrLess(last.id[2], entries[i].date)

----------------------------------------------------------------------------
(* Properties of the UserProfileStore *)

\* the names of the fields a profile holds; none when the profile is absent
FieldsOf(p) == IF p = Null THEN {} ELSE DOMAIN p

\* C13: setUserType(t) sets userType to t and keeps every other profile field,
\* from any profile including an absent one, and a second setUserType(t) right
\* after the first leaves the profile as the first left it.
SetUserTypeKeepsFields ==
    [][last'.op = "setUserType" =>
          /\ profile'.userType = last'.arg.userType
          /\ FieldsOf(profile') = FieldsOf(profile) \cup {"userType"}
          /\ \A k \in FieldsOf(profile) \ {"userType"} : profile'[k] = profile[k]
          /\ (last.op = "setUserType" /\ last.arg = last'.arg) => profile' = profile]_vars

\* setUserType has retagged a profile that holds other fields
SetUserTypeKeepsFieldsWitness ==
    /\ last.op = "setUserType"
    /\ last.arg.userType = Str("individual")
    /\ {"location", "wasteTypes", "companyName"} \subseteq FieldsOf(profile)

\* C14: updateProfile(partial) gives every field named in partial the value
\* from partial and keeps every other field, creates a profile holding the
\* fields of partial when the profile is absent, and resetProfile() sets the
\* profile to null.
UpdateProfileMerges ==
    [][/\ last'.op = "updateProfile" =>
             /\ FieldsOf(profile') = FieldsOf(profile) \cup DOMAIN last'.arg
             /\ \A k \in DOMAIN last'.arg : profile'[k] = last'.arg[k]
             /\ \A k \in FieldsOf(profile) \ DOMAIN last'.arg : profile'[k] = profile[k]
             /\ profile = Null => profile' = last'.arg
       /\ last'.op = "resetProfile" => profile' = Null]_vars

\* updateProfile has overwritten one field of a profile and kept others
UpdateProfileMergesWitness ==
    /\ last.op = "updateProfile"
    /\ last.arg = [companyName |-> "Acme", energyNeeds |-> 50]
    /\ "location" \in FieldsOf(profile) /\ "userType" \in FieldsOf(profile)
    /\ profile.location = "Nairobi, Kenya"

----------------------------------------------------------------------------
(* Properties of the analyzer and of the impact panel *)

\* the sum of the weights of a wasteTypes mapping
RECURSIVE TotalKg(_)
TotalKg(w) ==
    IF DOMAIN w = {} THEN 0
    ELSE LET k == CHOOSE x \in DOMAIN w : TRUE
         IN  w[k] + TotalKg([j \in (DOMAIN w) \ {k} |-> w[j]])

\* the number x is the fraction p/q
Is(x, p, q) == IsNumber(x) /\ x.n * q = p * x.d

\* the number x is the fraction p/q rounded to the nearest integer, halves upwards
IsRounded(x, p, q) == IsNumber(x) /\ x.d = 1 /\ 2 * q * x.n <= 2 * p + q /\ 2 * p + q < 2 * q * (x.n + 1)

\* a is the local estimate for W kg: W * 2.1 kWh, W * 0.5 kg, and 0.15 per kWh
IsEstimate(a, W) ==
    /\ Is(a.energyGenerated, 21 * W, 10)
    /\ Is(a.co2Avoided, 5 * W, 10)
    /\ Is(a.costSavings, 15 * a.energyGenerated.n, 100 * a.energyGenerated.d)

RECURSIVE Path(_, _)
Path(obj, ks) ==
    IF ks = <<>> THEN obj
    ELSE IF obj = Undefined \/ Head(ks) \notin DOMAIN obj THEN Undefined
    ELSE Path(obj[Head(ks)], Tail(ks))

RequiredFields ==
    {<<"results", "daily_averages", "energy_generated_kwh">>,
     <<"results", "daily_averages", "co2_avoided_kg">>,
     <<"personal_impact", "daily_savings_usd">>,
     <<"personal_impact", "trees_equivalent">>,
     <<"personal_impact", "cars_equivalent">>}

Malformed(data) == \E ks \in RequiredFields : Path(data, ks) = Undefined

\* C16: when the response lacks one of the five numeric fields, the result
\* delivered and rendered is the local estimate; no result with a missing
\* numeric field is delivered and the analyzer does not crash.
MalformedResponseFallsBack ==
    [][(last'.op = "runAnalysis" /\ last'.arg.outcome.kind = "response"
            /\ Malformed(last'.arg.outcome.data)) =>
          /\ IsEstimate(aiAnalysis', TotalKg(last'.arg.wasteTypes))
          /\ Is(aiAnalysis'.confidence, 88, 100)
          /\ analysis' = aiAnalysis'
          /\ ~crashed']_vars

\* C17: the fallback estimate for weights totalling W kg is energyGenerated =
\* W * 2.1, co2Avoided = W * 0.5 and costSavings = energyGenerated * 0.15; for
\* W = 10 it is 21.0, 5.0 and 3.15.
FallbackIsLinear ==
    (last.op = "runAnalysis" /\ last.arg.outcome.kind \in Failures) =>
        LET W == TotalKg(last.arg.wasteTypes)
        IN  /\ IsEstimate(aiAnalysis, W)
            /\ W = 10 => /\ aiAnalysis.energyGenerated = Num(21, 1)
                         /\ aiAnalysis.co2Avoided = Num(5, 1)
                         /\ aiAnalysis.costSavings = Num(315, 100)

\* the estimate for 10 kg has been delivered after a network error
FallbackIsLinearWitness ==
    /\ last.op = "runAnalysis"
    /\ last.arg.outcome.kind = "network"
    /\ TotalKg(last.arg.wasteTypes) = 10
    /\ aiAnalysis.costSavings = Num(315, 100)

\* C18: wherever they are computed, treesEquivalent = round(co2Avoided / 22),
\* carsEquivalent = co2Avoided / 4000 and homesPowered = round(energy / 30);
\* co2Avoided = 22 gives treesEquivalent 1 and co2Avoided = 4000 gives
\* carsEquivalent equal to the number 1.0.
EquivalentsAreRatios ==
    /\ (last.op = "runAnalysis" /\ last.arg.outcome.kind \in Failures) =>
          LET co2 == aiAnalysis.co2Avoided
              env == aiAnalysis.environmentalImpact
          IN  /\ IsRounded(env.treesEquivalent, co2.n, 22 * co2.d)
              /\ Is(env.carsEquivalent, co2.n, 4000 * co2.d)
              /\ co2 = Num(22, 1) => env.treesEquivalent = Num(1, 1)
              /\ co2 = Num(4000, 1) => env.carsEquivalent = Num(1, 1)
    /\ last.op = "ImpactVisualization" =>
          LET co2 == last.arg.stats.totalCo2Avoided
              energy == last.arg.stats.totalEnergy
              m == last.arg.metrics
          IN  /\ IsRounded(m.treesEquivalent, co2.n, 22 * co2.d)
              /\ Is(m.carsEquivalent, co2.n, 4000 * co2.d)
              /\ IsRounded(m.homesPowered, energy.n, 30 * energy.d)
              /\ co2 = Num(22, 1) => m.treesEquivalent = Num(1, 1)
              /\ co2 = Num(4000, 1) => m.carsEquivalent = Num(1, 1)

----------------------------------------------------------------------------
(* Properties of the persisted state *)

KeptAuthFields ==
    /\ storage["auth-storage"] # Absent
    /\ DOMAIN storage["auth-storage"].state = {"isAuthenticated", "user", "token"}
    /\ last.op = "reload" => ~isLoading

\* an AuthStore has been loaded from what was kept while a request was in flight
KeptAuthFieldsWitness ==
    /\ last.op = "reload"
    /\ last.arg.wasLoading
    /\ ~isLoading
    /\ storage["auth-storage"].state.isAuthenticated
    /\ storage["auth-storage"].state.user.name = <<"b", "o">>

----------------------------------------------------------------------------
(* Unreadable blobs *)

\* a signed-in session in which the analyzer runs, the page is restarted and a
\* blob is damaged from outside
NextCorrupt ==
    \/ \E e \in StringEmails : login(e)
    \/ \E c \in pending : loginResume(c)
    \/ logout
    \/ \E e \in {EntryA} : addEntry(e)
    \/ \E w \in {[food_scraps |-> 4, wood_biomass |-> 6]} : isAuthenticated /\ setWasteTypes(w)
    \/ \E r \in BagToSet(runs) : timerResume(r)
    \/ \E r \in BagToSet(runs), o \in {[kind |-> "response", data |-> GoodData], [kind |-> "network"]} :
           requestResume(r, o)
    \/ \E n \in PersistNames : corrupt(n)
    \/ reload

SpecCorrupt == Init /\ [][NextCorrupt]_vars

\* C21: a store whose key is absent or holds an unparseable blob loads as its
\* defaults (anonymous, no profile, no entries), and no operation that reads the
\* persisted blob raises an error: not the load, and not a request sent later.
UnreadableBlobIsHarmless ==
    /\ last.op = "reload" =>
           /\ "auth-storage" \in last.arg.unreadable =>
                  ~isAuthenticated /\ ~isLoading /\ user = Null /\ token = Null
           /\ "user-storage" \in last.arg.unreadable => profile = Null
           /\ "waste-storage" \in last.arg.unreadable => entries = <<>>
    /\ last.op = "runAnalysis" => last.arg.outcome.kind # "SyntaxError"

----------------------------------------------------------------------------
(* Two tabs on one localStorage *)

\* the second tab is loaded: its WasteEntryStore hydrates from 'waste-storage'
\* and writes back what it then holds
otherLoad ==
    /\ otherEntries' = hydrate(wasteDefaults, storage["waste-storage"]).entries
    /\ storage' = [storage EXCEPT !["waste-storage"] = wasteItem(otherEntries')]
    /\ last' = Ran("otherLoad", <<>>, NoArg, "ok")
    /\ UNCHANGED <<storeVars, analyzerVars, step, form, selectedTypes, dialog>>

\* addEntry in a second tab that reads the kept list before it adds to it
otherAddEntryMerges(entry) ==
    /\ Len(otherEntries) < MaxEntries
    /\ otherEntries' = addEntryState(hydrate(wasteDefaults, storage["waste-storage"]).entries, entry, now)
    /\ storage' = [storage EXCEPT !["waste-storage"] = wasteItem(otherEntries')]
    /\ last' = Ran("otherAddEntry", newId(now), entry, "ok")
    /\ UNCHANGED <<storeVars, analyzerVars, step, form, selectedTypes, dialog>>

\* addEntry in the second tab: set() on that tab's state, then the write of
\* that tab's whole state
otherAddEntry(entry) ==
    /\ Len(otherEntries) < MaxEntries
    /\ otherEntries' = addEntryState(otherEntries, entry, now)
    /\ storage' = [storage EXCEPT !["waste-storage"] = wasteItem(otherEntries')]
    /\ last' = Ran("otherAddEntry", newId(now), entry, "ok")
    /\ UNCHANGED <<storeVars, analyzerVars, step, form, selectedTypes, dialog>>

NextTabs ==
    \/ \E e \in {EntryA} : addEntry(e)
    \/ \E e \in {EntryB} : otherAddEntry(e)
    \/ otherLoad
    \/ reload
    \/ Tick

SpecTabs == Init /\ [][NextTabs]_vars

\* the entries kept under 'waste-storage'
KeptEntries == storage["waste-storage"].state.entries

\* C22: persistence is last-write-wins on whole snapshots. When both tabs have
\* loaded the same snapshot, one has added an entry and the other then adds one,
\* what is kept afterwards is the second writer's complete list: its new entry
\* in front of the common snapshot, without the entry the first writer added.
LastWriteWins ==
    [][/\ (/\ last'.op = "otherAddEntry"
           /\ entries # <<>> /\ otherEntries = Tail(entries) /\ KeptEntries = entries)
          => /\ KeptEntries' = otherEntries'
             /\ KeptEntries' = <<Spread(last'.arg, [id |-> last'.id])>> \o Tail(entries)
             /\ Len(KeptEntries') = Len(KeptEntries)
       /\ (/\ last'.op = "addEntry"
           /\ otherEntries # <<>> /\ entries = Tail(otherEntries) /\ KeptEntries = otherEntries)
          => /\ KeptEntries' = entries'
             /\ KeptEntries' = <<Spread(last'.arg, [id |-> last'.id])>> \o Tail(otherEntries)
             /\ Len(KeptEntries') = Len(KeptEntries)]_vars

\* both tabs loaded a log of one entry; the first added EntryA, the second then
\* EntryB a millisecond later, and EntryA is not in what is kept
LastWriteWinsWitness ==
    /\ last.op = "otherAddEntry"
    /\ Len(entries) = 2 /\ Len(otherEntries) = 2
    /\ Tail(entries) = Tail(otherEntries)
    /\ entries[1].id # otherEntries[1].id
    /\ entries[1].wasteTypes = EntryA.wasteTypes
    /\ KeptEntries = otherEntries
    /\ \A i \in 1..Len(KeptEntries) : KeptEntries[i] # entries[1]

----------------------------------------------------------------------------
(* One tab: the stores and the analyzer's requests *)

\* the operations of the three stores with well-typed arguments, and a signed-in
\* user's analyzer, whose request the server may answer with 401
NextApp ==
    \/ \E e \in StringEmails : login(e)
    \/ \E c \in pending : loginResume(c)
    \/ \E n \in {<<"A", "l">>}, e \in StringEmails : register(n, e)
    \/ \E c \in pending : registerResume(c)
    \/ logout
    \/ \E b \in {TRUE} : setLoading(b)
    \/ \E t \in {Str("individual")} : setUserType(t)
    \/ \E p \in {[location |-> "Nairobi, Kenya", energyNeeds |-> 10, wasteTypes |-> [food_scraps |-> 4]]} :
           updateProfile(p)
    \/ resetProfile
    \/ \E e \in {EntryA} : addEntry(e)
    \/ \E id \in {NumToString(StartTime)}, u \in {[co2Avoided |-> 3]} : updateEntry(id, u)
    \/ \E id \in {NumToString(StartTime)} : deleteEntry(id)
    \/ \E w \in {[food_scraps |-> 4, wood_biomass |-> 6]} : isAuthenticated /\ setWasteTypes(w)
    \/ \E r \in BagToSet(runs) : timerResume(r)
    \/ \E r \in BagToSet(runs), o \in {[kind |-> "response", data |-> GoodData], [kind |-> "401"]} :
           requestResume(r, o)

SpecApp == Init /\ [][NextApp]_vars

\* C23: in one tab, after every store mutation and after every other step of
\* the program (the handling of a 401 response among them), what is kept under
\* each store's key is the store's state in memory, for the AuthStore its
\* isAuthenticated, user and token.
KeptIsMemory == storage = Kept

----------------------------------------------------------------------------
(* App: frontend/src/App.tsx *)

Page(name) == [page |-> name]
Navigate(to) == [to |-> to]
Protected(children) == [guard |-> "ProtectedRoute", children |-> children]

\* the state object of useUserStore, the three functions left out
useUserStore == [profile |-> profile]

\* const { userType } = useUserStore()
userType == Get(useUserStore, "userType")

\* the children of the /onboarding route
onboarding ==
    IF userType = Str("individual") THEN Page("IndividualOnboarding")
    ELSE IF userType = Str("company") THEN Page("CompanyOnboarding")
    ELSE Navigate("/user-type")

Paths == {"/", "/auth", "/user-type", "/onboarding", "/dashboard", "/analyze", "/history", "/profile", "/nowhere"}

\* what App renders at a path
App(path) ==
    IF isLoading THEN Page("LoadingSpinner")
    ELSE CASE path = "/" -> IF isAuthenticated THEN Navigate("/dashboard") ELSE Page("LandingPage")
           [] path = "/auth" -> IF isAuthenticated THEN Navigate("/dashboard") ELSE Page("AuthPage")
           [] path = "/user-type" -> IF isAuthenticated THEN Navigate("/dashboard") ELSE Page("UserTypeSelection")
           [] path = "/onboarding" -> Protected(onboarding)
           [] path = "/dashboard" -> Protected(Page("Dashboard"))
           [] path = "/analyze" -> Protected(Page("WasteAnalyzer"))
           [] path = "/history" -> Protected(Page("HistoryPage"))
           [] path = "/profile" -> Protected(Page("ProfilePage"))
           [] OTHER -> Navigate("/")

\* the location after the render: an unguarded Navigate replaces it
Landed(path) == IF "to" \in DOMAIN App(path) THEN App(path).to ELSE path

\* the browser is sent to a path and App renders there
visit(path) ==
    /\ href' = path
    /\ last' = Ran("visit", <<>>, [path |-> path, element |-> App(path)], "ok")
    /\ UNCHANGED <<storeVars, wasteTypes, isAnalyzing, currentStep, analysis, runs, aiAnalysis, crashed,
                   storage, pageVars>>

\* a Navigate element rendered at the current location replaces the location
replace ==
    /\ Landed(href) # href
    /\ href' = Landed(href)
    /\ last' = Ran("replace", <<>>, [path |-> href', element |-> App(href')], "ok")
    /\ UNCHANGED <<storeVars, wasteTypes, isAnalyzing, currentStep, analysis, runs, aiAnalysis, crashed,
                   storage, pageVars>>

\* UserTypeSelection: setUserType(userType); navigate('/onboarding')
handleUserTypeSelect(t) ==
    /\ App(href) = Page("UserTypeSelection")
    /\ profile' = Spread(profile, [userType |-> t])
    /\ storage' = [storage EXCEPT !["user-storage"] = userItem(profile')]
    /\ href' = "/onboarding"
    /\ last' = Ran("handleUserTypeSelect", <<>>, [path |-> href', element |-> App(href')], "ok")
    /\ UNCHANGED <<isAuthenticated, isLoading, user, token, pending, entries, now,
                   wasteTypes, isAnalyzing, currentStep, analysis, runs, aiAnalysis, crashed, pageVars>>

NextRoutes ==
    \/ \E e \in StringEmails : login(e)
    \/ \E c \in pending : loginResume(c)
    \/ logout
    \/ \E t \in {Str("individual"), Str("company")} : setUserType(t)
    \/ \E t \in {Str("individual"), Str("company")} : handleUserTypeSelect(t)
    \/ resetProfile
    \/ \E path \in Paths : visit(path)
    \/ replace

SpecRoutes == Init /\ [][NextRoutes]_vars

\* the page that the user type of the stored profile calls for
onboardingOfProfile ==
    IF Get(profile, "userType") = Str("individual") THEN Page("IndividualOnboarding")
    ELSE IF Get(profile, "userType") = Str("company") THEN Page("CompanyOnboarding")
    ELSE Navigate("/user-type")

\* C24: at /onboarding a signed-in user whose stored profile has userType
\* 'individual' gets IndividualOnboarding, one with 'company' gets
\* CompanyOnboarding, and only one without a user type is sent to /user-type.
OnboardingFollowsUserType ==
    (/\ last.op \in {"visit", "replace", "handleUserTypeSelect"}
     /\ last.arg.path = "/onboarding" /\ isAuthenticated /\ ~isLoading) =>
        last.arg.element = Protected(onboardingOfProfile)

----------------------------------------------------------------------------
(* The onboarding pages: IndividualOnboarding and
   frontend/src/pages/CompanyOnboarding.tsx. wasteTypes is the page's
   selectedWasteTypes, which it passes to the selector at step 2 and to the
   analyzer at step 3; aiAnalysis is the page's aiAnalysis. *)

\* what the form of each page hands to onSubmit
FormData ==
    [individual |-> [location |-> "Nairobi, Kenya", dailyEnergyNeeds |-> 10, wasteDescription |-> "peels"],
     company |-> [companyName |-> "Acme", location |-> "Lagos, Nigeria",
                  currentProcessingMethod |-> "landfill", operationalCost |-> 100,
                  wasteDescription |-> "stalls"]]

\* the selections that the selector hands to onTypesChange here
SelectionInputs == {<<>>, [food_scraps |-> 5], [market_waste |-> 50, wood_biomass |-> 12]}

\* x || 0
OrZero(x) == IF x = Undefined \/ x = NaN \/ x = Num(0, 1) THEN Num(0, 1) ELSE x

\* the runs of rs after an unmount: the state setters of the analyzer do nothing
\* from now on, and setAiAnalysis of the page only while the page stays
RECURSIVE Unmounted(_, _, _)
Unmounted(rs, S, pageStays) ==
    IF S = {} THEN EmptyBag
    ELSE LET r == CHOOSE x \in S : TRUE
         IN  [x \in {[r EXCEPT !.live = FALSE, !.heard = r.heard /\ pageStays]} |-> CopiesIn(r, rs)]
                 (+) Unmounted(rs, S \ {r}, pageStays)

\* step 3 is rendered: a new AIWasteAnalyzer with its initial state, whose effect
\* starts runAnalysis when the selection weighs something
analyzerMounts ==
    /\ analysis' = Null
    /\ currentStep' = 0
    /\ IF totalWasteOf(wasteTypes).n > 0
       THEN /\ BagCardinality(runs) < MaxRuns
            /\ isAnalyzing' = TRUE
            /\ runs' = Unmounted(runs, BagToSet(runs), TRUE) (+) SetToBag({[pc |-> "timer", i |-> 0, wasteTypes |-> wasteTypes,
                                                      live |-> TRUE, heard |-> TRUE]})
       ELSE /\ isAnalyzing' = FALSE
            /\ runs' = Unmounted(runs, BagToSet(runs), TRUE)

\* step 3 is left: the analyzer and its state are gone, its runs go on
analyzerUnmounts ==
    /\ analysis' = Null
    /\ currentStep' = 0
    /\ isAnalyzing' = FALSE
    /\ runs' = Unmounted(runs, BagToSet(runs), TRUE)

\* an onboarding page is opened
openOnboarding(f) ==
    /\ ~crashed
    /\ form = "none"
    /\ form' = f
    /\ step' = 1
    /\ wasteTypes' = <<>>
    /\ aiAnalysis' = Null
    /\ href' = "/onboarding"
    /\ last' = Ran("openOnboarding", <<>>, [form |-> f], "ok")
    /\ UNCHANGED <<storeVars, isAnalyzing, currentStep, analysis, runs, crashed, storage,
                   selectedTypes, dialog, otherEntries>>

\* onTypesChange={setSelectedWasteTypes} of the selector at step 2
setSelectedWasteTypes(w) ==
    /\ ~crashed
    /\ form # "none"
    /\ step = 2
    /\ w # wasteTypes
    /\ wasteTypes' = w
    /\ last' = Ran("setSelectedWasteTypes", <<>>, w, "ok")
    /\ UNCHANGED <<storeVars, isAnalyzing, currentStep, analysis, runs, aiAnalysis, crashed, href,
                   storage, pageVars>>

\* the Next button, disabled at step 2 while nothing is selected
nextStep ==
    /\ ~crashed
    /\ form # "none"
    /\ ~(step = 2 /\ DOMAIN wasteTypes = {})
    /\ step < 4
    /\ step' = step + 1
    /\ IF step' = 3 THEN analyzerMounts
       ELSE IF step = 3 THEN analyzerUnmounts
       ELSE UNCHANGED <<isAnalyzing, currentStep, analysis, runs>>
    /\ last' = Ran("nextStep", <<>>, NoArg, "ok")
    /\ UNCHANGED <<storeVars, wasteTypes, aiAnalysis, crashed, href, storage,
                   form, selectedTypes, dialog, otherEntries>>

\* the Previous button
prevStep ==
    /\ ~crashed
    /\ form # "none"
    /\ step > 1
    /\ step' = step - 1
    /\ IF step' = 3 THEN analyzerMounts
       ELSE IF step = 3 THEN analyzerUnmounts
       ELSE UNCHANGED <<isAnalyzing, currentStep, analysis, runs>>
    /\ last' = Ran("prevStep", <<>>, NoArg, "ok")
    /\ UNCHANGED <<storeVars, wasteTypes, aiAnalysis, crashed, href, storage,
                   form, selectedTypes, dialog, otherEntries>>

\* the argument of updateProfile
profileAnswers(f, data, w) ==
    IF f = "individual"
    THEN [location |-> data.location, energyNeeds |-> data.dailyEnergyNeeds, wasteTypes |-> w]
    ELSE [userType |-> Str("company"), companyName |-> data.companyName, location |-> data.location,
          wasteTypes |-> w, currentProcessingMethod |-> data.currentProcessingMethod,
          operationalCost |-> data.operationalCost]

\* the argument of addEntry
initialEntry(data, w, a, t) ==
    [date |-> ToISOString(t),
     wasteTypes |-> w,
     totalWeight |-> SumWeights(w, DOMAIN w),
     energyGenerated |-> OrZero(a.energyGenerated),
     co2Avoided |-> OrZero(a.co2Avoided),
     costSavings |-> OrZero(a.costSavings),
     description |-> data.wasteDescription,
     aiAnalysis |-> [recommendations |-> a.recommendations,
                     confidence |-> a.confidence,
                     conversionMethod |-> a.conversionMethod]]

\* onSubmit that adds an entry whether or not there is an analysis
submittedEntriesAlways(es, data, w, a, t) ==
    addEntryState(es, initialEntry(data, w, IF a = Null THEN generateMockAnalysis(w) ELSE a, t), t)

\* the entries after onSubmit: if (aiAnalysis) addEntry({...})
submittedEntries(es, data, w, a, t) ==
    IF a # Null THEN addEntryState(es, initialEntry(data, w, a, t), t) ELSE es

\* the Complete Setup button of step 4: updateProfile, addEntry if there is an
\* analysis, navigate('/dashboard')
onSubmit ==
    /\ ~crashed
    /\ form # "none"
    /\ step = 4
    /\ Len(entries) < MaxEntries
    /\ profile' = Spread(profile, profileAnswers(form, FormData[form], wasteTypes))
    /\ entries' = submittedEntries(entries, FormData[form], wasteTypes, aiAnalysis, now)
    /\ storage' = [storage EXCEPT !["user-storage"] = userItem(profile'),
                                  !["waste-storage"] = wasteItem(entries')]
    /\ href' = "/dashboard"
    /\ form' = "none"
    /\ runs' = Unmounted(runs, BagToSet(runs), FALSE)
    /\ last' = Ran("onSubmit", <<>>,
                   [form |-> form, data |-> FormData[form], selection |-> wasteTypes, analysis |-> aiAnalysis],
                   IF aiAnalysis # Null THEN "added" ELSE "ok")
    /\ UNCHANGED <<isAuthenticated, isLoading, user, token, pending, now,
                   wasteTypes, isAnalyzing, currentStep, analysis, aiAnalysis, crashed,
                   step, selectedTypes, dialog, otherEntries>>

NextOnboarding ==
    \/ \E f \in {"individual", "company"} : entries = <<>> /\ openOnboarding(f)
    \/ \E w \in SelectionInputs : setSelectedWasteTypes(w)
    \/ nextStep
    \/ prevStep
    \/ onSubmit
    \/ \E r \in BagToSet(runs) : timerResume(r)
    \/ \E r \in BagToSet(runs), o \in {[kind |-> "network"]} :
           requestResume(r, o)

SpecOnboarding == Init /\ [][NextOnboarding]_vars

\* C25: a submission of an onboarding page always merges the form's answers and
\* the current selection into the profile; it adds exactly one entry when an
\* analysis is available and none otherwise, and that entry has the current
\* selection as its wasteTypes and the sum of its weights as its totalWeight.
SubmissionStoresAnswers ==
    [][last'.op = "onSubmit" =>
          LET data == last'.arg.data IN
          /\ profile'.location = data.location
          /\ profile'.wasteTypes = wasteTypes
          /\ form = "individual" => profile'.energyNeeds = data.dailyEnergyNeeds
          /\ form = "company" =>
                 /\ profile'.companyName = data.companyName
                 /\ profile'.currentProcessingMethod = data.currentProcessingMethod
                 /\ profile'.operationalCost = data.operationalCost
          /\ \A k \in DOMAIN profile :
                 (profile # Null /\ k \notin DOMAIN profileAnswers(form, data, wasteTypes)) =>
                     profile'[k] = profile[k]
          /\ IF aiAnalysis # Null
             THEN /\ Len(entries') = Len(entries) + 1
                  /\ Tail(entries') = entries
                  /\ Head(entries').wasteTypes = wasteTypes
                  /\ Head(entries').totalWeight = TotalKg(wasteTypes)
             ELSE entries' = entries]_vars

\* the company page was submitted with an analysis after the individual page:
\* the profile has the answers of both, and the new entry weighs 62 kg
SubmissionStoresAnswersWitness ==
    /\ last.op = "onSubmit"
    /\ last.result = "added"
    /\ last.arg.form = "company"
    /\ "energyNeeds" \in DOMAIN profile
    /\ profile.companyName = "Acme"
    /\ entries # <<>>
    /\ entries[1].totalWeight = 62
    /\ entries[1].wasteTypes = profile.wasteTypes

\* C28: the energyGenerated, co2Avoided and costSavings of an entry stored by
\* an onboarding submission come from a run that was started with the selection
\* that is the entry's wasteTypes, however navigation, changes of the selection
\* and the completions of runs interleave.
EntryMatchesItsAnalysis ==
    (last.op = "onSubmit" /\ last.result = "added") =>
        /\ entries[1].wasteTypes = last.arg.analysis.wasteComposition
        /\ entries[1].energyGenerated = OrZero(last.arg.analysis.energyGenerated)

----------------------------------------------------------------------------
(* Overlapping calls of the AuthStore *)

\* C26: as long as setLoading is not called, isLoading is true exactly when
\* at least one login or register call is suspended at its await, also when
\* several calls overlap.
LoadingIffInFlight == isLoading <=> pending # {}

\* C27: after logout the store stays anonymous until login or register is
\* called again: a call that was suspended when logout ran does not sign the
\* user in when it resumes.
LogoutOutlivesRequests ==
    [][(last.op = "logout" /\ last'.op \in {"login", "register"} /\ last'.result # "await") =>
          (~isAuthenticated' /\ user' = Null /\ token' = Null)]_vars

----------------------------------------------------------------------------
(* Overlapping runs of the analyzer *)

\* C29: a run whose request settles ends with one call of onAnalysisComplete;
\* isAnalyzing is true as long as a run of the analyzer is in flight and false
\* once none is; while a run is in flight the step shown goes through 0, 1, 2, 3
\* without ever decreasing, also when wasteTypes changes during a run.
RunsProgressInOrder ==
    [][/\ crashed' \/ (isAnalyzing' <=> runs' # EmptyBag)
       /\ (runs # EmptyBag /\ runs' # EmptyBag) => currentStep' >= currentStep
       /\ last'.op = "runAnalysis" =>
              /\ BagCardinality(runs') = BagCardinality(runs) - 1
              /\ aiAnalysis' # Null]_vars

----------------------------------------------------------------------------
(* WasteTypeSelector: frontend/src/components/waste/WasteTypeSelector.tsx, with
   WasteWeightInput and SmartWasteDetector. selectedTypes is the prop of that
   name, kept by whoever renders the selector; its weights are fractions. form
   is the userType prop. *)

\* the ids of the catalog wasteTypes
CatalogIds == {"food_scraps", "market_waste", "agricultural_biomass", "animal_waste", "wood_biomass"}

weightPresets ==
    [individual |-> {Num(2, 1), Num(5, 1), Num(10, 1), Num(20, 1)},
     company |-> {Num(50, 1), Num(200, 1), Num(500, 1), Num(1000, 1)}]

mockDetectedWaste ==
    [individual |-> [food_scraps |-> Num(32, 10), market_waste |-> Num(15, 10),
                     agricultural_biomass |-> Num(8, 10)],
     company |-> [food_scraps |-> Num(45, 1), market_waste |-> Num(32, 1),
                  agricultural_biomass |-> Num(18, 1), wood_biomass |-> Num(12, 1)]]

\* what is typed into the custom amount field
CustomInputs == {<<>>, <<"0">>, <<"7">>, <<"-", "3">>, <<"0", ".", "5">>, <<"k", "g">>}

\* the types whose weight dialog is opened here
DialogTypes == {"food_scraps", "wood_biomass"}

\* the longest prefix of s from position i on that is digits with at most one point
RECURSIVE ScanNumber(_, _, _)
ScanNumber(s, i, acc) ==
    IF i > Len(s) THEN acc
    ELSE IF \E j \in 1..10 : Digits[j] = s[i]
         THEN ScanNumber(s, i + 1, [n |-> 10 * acc.n + (CHOOSE j \in 1..10 : Digits[j] = s[i]) - 1,
                                    d |-> IF acc.point THEN 10 * acc.d ELSE acc.d,
                                    point |-> acc.point, digits |-> acc.digits + 1])
    ELSE IF s[i] = "." /\ ~acc.point THEN ScanNumber(s, i + 1, [acc EXCEPT !.point = TRUE])
    ELSE acc

\* parseFloat of a decimal numeral with an optional sign; NaN without a digit
parseFloat(s) ==
    LET negative == s # <<>> /\ s[1] = "-"
        scanned == ScanNumber(s, IF negative THEN 2 ELSE 1, [n |-> 0, d |-> 1, point |-> FALSE, digits |-> 0])
        magnitude == Num(scanned.n, scanned.d)
    IN  IF scanned.digits = 0 THEN NaN
        ELSE IF negative THEN [n |-> 0 - magnitude.n, d |-> magnitude.d]
        ELSE magnitude

\* selectedTypes[typeId] || 0
weightOf(sel, typeId) == IF typeId \in DOMAIN sel THEN OrZero(sel[typeId]) ELSE Num(0, 1)

\* { ...selectedTypes } after delete newTypes[typeId]
Without(sel, typeId) == [k \in (DOMAIN sel) \ {typeId} |-> sel[k]]

\* handleTypeSelect whose new type has no weight yet
typeSelectedUnweighted(sel, typeId, ut) ==
    IF weightOf(sel, typeId) # Num(0, 1) THEN Without(sel, typeId)
    ELSE Spread(sel, [k \in {typeId} |-> Num(0, 1)])

\* what handleTypeSelect hands to onTypesChange
typeSelected(sel, typeId, ut) ==
    IF weightOf(sel, typeId) # Num(0, 1) THEN Without(sel, typeId)
    ELSE Spread(sel, [k \in {typeId} |-> IF ut = "individual" THEN Num(5, 1) ELSE Num(50, 1)])

\* what handleWeightChange hands to onTypesChange
weightChanged(sel, typeId, weight) ==
    IF weight.n <= 0 THEN Without(sel, typeId)
    ELSE Spread(sel, [k \in {typeId} |-> weight])

\* a card of the catalog is clicked
handleTypeSelect(typeId) ==
    /\ dialog = Null
    /\ selectedTypes' = typeSelected(selectedTypes, typeId, form)
    /\ last' = Ran("handleTypeSelect", typeId, NoArg, "ok")
    /\ UNCHANGED <<storeVars, analyzerVars, storage, step, form, dialog, otherEntries>>

\* the weight of a card or Edit of a selected type: WasteWeightInput opens with
\* useState(currentWeight)
openWeightInput(typeId) ==
    /\ dialog = Null
    /\ typeId \in CatalogIds \cup DOMAIN selectedTypes
    /\ dialog' = [type |-> typeId, weight |-> weightOf(selectedTypes, typeId)]
    /\ last' = Ran("openWeightInput", typeId, NoArg, "ok")
    /\ UNCHANGED <<storeVars, analyzerVars, storage, step, form, selectedTypes, otherEntries>>

handlePresetSelect(presetWeight) ==
    /\ dialog # Null
    /\ dialog' = [dialog EXCEPT !.weight = presetWeight]
    /\ last' = Ran("handlePresetSelect", dialog.type, presetWeight, "ok")
    /\ UNCHANGED <<storeVars, analyzerVars, storage, step, form, selectedTypes, otherEntries>>

handleCustomWeightChange(value) ==
    LET numValue == parseFloat(value)
    IN  /\ dialog # Null
        /\ dialog' = IF numValue # NaN /\ numValue.n >= 0 THEN [dialog EXCEPT !.weight = numValue]
                      ELSE dialog
        /\ last' = Ran("handleCustomWeightChange", dialog.type, [value |-> value, numValue |-> numValue], "ok")
        /\ UNCHANGED <<storeVars, analyzerVars, storage, step, form, selectedTypes, otherEntries>>

\* the Save button, disabled while weight <= 0: onWeightChange(weight); onClose()
handleSave ==
    /\ dialog # Null
    /\ ~(dialog.weight.n <= 0)
    /\ selectedTypes' = weightChanged(selectedTypes, dialog.type, dialog.weight)
    /\ dialog' = Null
    /\ last' = Ran("handleSave", dialog.type, dialog.weight, "ok")
    /\ UNCHANGED <<storeVars, analyzerVars, storage, step, form, otherEntries>>

\* Cancel, or the cross
onClose ==
    /\ dialog # Null
    /\ dialog' = Null
    /\ last' = Ran("onClose", dialog.type, NoArg, "ok")
    /\ UNCHANGED <<storeVars, analyzerVars, storage, step, form, selectedTypes, otherEntries>>

\* the results of the detector are accepted
handleSmartDetection ==
    /\ dialog = Null
    /\ selectedTypes' = mockDetectedWaste[form]
    /\ last' = Ran("handleSmartDetection", <<>>, NoArg, "ok")
    /\ UNCHANGED <<storeVars, analyzerVars, storage, step, form, dialog, otherEntries>>

NextSelector ==
    \/ \E typeId \in CatalogIds : handleTypeSelect(typeId)
    \/ \E typeId \in DialogTypes : openWeightInput(typeId)
    \/ \E presetWeight \in weightPresets[form] : handlePresetSelect(presetWeight)
    \/ \E value \in CustomInputs : handleCustomWeightChange(value)
    \/ handleSave
    \/ onClose
    \/ handleSmartDetection

\* the selector of either onboarding page, from an empty selection
InitSelector ==
    /\ isAuthenticated = FALSE
    /\ isLoading = FALSE
    /\ user = Null
    /\ token = Null
    /\ pending = {}
    /\ profile = Null
    /\ entries = <<>>
    /\ now = StartTime
    /\ AnalyzerInit
    /\ step = 2
    /\ form \in {"individual", "company"}
    /\ selectedTypes = <<>>
    /\ dialog = Null
    /\ otherEntries = <<>>
    /\ storage = Kept
    /\ last = Ran("init", <<>>, NoArg, "ok")

SpecSelector == InitSelector /\ [][NextSelector]_vars

\* C30: from an empty selection, after any sequence of toggles, saved weights
\* and accepted detections, every key of the selection is one of the five
\* catalog ids and every value is a number above zero.
SelectionIsPositive ==
    \A k \in DOMAIN selectedTypes :
        /\ k \in CatalogIds
        /\ IsNumber(selectedTypes[k])
        /\ selectedTypes[k].n > 0 /\ selectedTypes[k].d > 0

\* after an accepted detection, half a kilogram was typed and saved for the
\* food scraps and the market waste was toggled off
SelectionIsPositiveWitness ==
    /\ DOMAIN selectedTypes = {"food_scraps", "agricultural_biomass"}
    /\ selectedTypes.food_scraps = Num(1, 2)
    /\ selectedTypes.agricultural_biomass = Num(8, 10)
    /\ dialog = Null

====
